---- MODULE Spec2Model ----
\* Blackboard song recommender (src/blackboard.py): the blackboard (pool,
\* affirmations, solving), the four knowledge sources and the controller's
\* recommendation cycle, as a state machine.  One action per step of
\* Controller.run; each action carries out the whole handler, every nested
\* call included.  The last.fm provider is an input: the track universe is a
\* fixed table and each similar-artist lookup returns an arbitrary feed.
EXTENDS Integers, Sequences, FiniteSets, TLC

\* ---------------------------------------------------------------- bounds
MaxFeed == 3      \* longest similar-track feed the provider returns
MaxLikes == 2
MaxLog == 3       \* longest hypothesis log of the resign specification
MaxPool == 3      \* longest pool of the admission specification
MaxSession == 6   \* longest feed of a session in which the user only rejects
MaxChoose == 4    \* longest feed of a session with direct calls of choose()

\* ------------------------------------------------------ provider's data
NoTrack == 0                      \* None where a Recommendation is expected
NoFeed == <<NoTrack>>             \* None where the list of top tracks is expected
ArtistNames == <<"A1", "A2">>
Alias == "a1"                     \* a spelling the provider autocorrects
None == "None"

\* A number of a JSON answer as Python holds it: the text of its decimal
\* digits (the provider sends its counts as text).
JsonText(digits) == [type |-> "unicode", text |-> digits]

PlaycountTable ==
    <<JsonText(<<1, 0, 0>>), JsonText(<<9, 0>>), JsonText(<<1, 5, 0>>),
      JsonText(<<2, 0, 0>>), JsonText(<<1, 1, 0>>), JsonText(<<8, 0>>),
      JsonText(<<4, 0>>)>>
TagTable == << <<"a", "b">>, <<"a">>, <<"b", "c">>, <<>>, <<"a", "b", "c">>,
              <<"a", "b", "d", "e">>, <<"b", "a">> >>
\* the tracks known to the provider
AllTracks == DOMAIN PlaycountTable
\* the tracks the provider's answers are drawn from in a session with likes
Tracks == {1, 2, 3, 4}

Wrap(t, n) == ((t - 1) % n) + 1
\* the 'artist' of a track.getInfo answer
ArtistOf(t) == ArtistNames[Wrap(t, Len(ArtistNames))]
\* the 'playcount' of a track.getInfo answer, as the Recommendation keeps it
PlaycountOf(t) == PlaycountTable[t]
\* the tag names of a track.getTopTags answer
TopTagsOf(t) == TagTable[t]

RECURSIVE SeqsUpTo(_, _)
SeqsUpTo(S, n) ==
    IF n = 0 THEN {<< >>}
    ELSE LET shorter == SeqsUpTo(S, n - 1)
         IN shorter \cup {Append(s, x) : s \in {q \in shorter : Len(q) = n - 1}, x \in S}
\* what artist.getSimilar + artist.getTopTracks can answer, most similar first
Feeds == SeqsUpTo(Tracks, MaxFeed)

RECURSIVE DistinctSeqsUpTo(_, _)
DistinctSeqsUpTo(S, n) ==
    IF n = 0 THEN {<< >>}
    ELSE LET shorter == DistinctSeqsUpTo(S, n - 1)
         IN shorter \cup UNION {{Append(s, x) : x \in S \ {s[i] : i \in 1..Len(s)}} :
                                   s \in {q \in shorter : Len(q) = n - 1}}
\* the answers over every track, one top track per similar artist and no
\* track twice, for a session in which the user only rejects
SessionFeeds == DistinctSeqsUpTo(AllTracks, MaxSession)

\* --------------------------------------------------------------- helpers
Abs(x) == IF x < 0 THEN -x ELSE x

\* int(x) for the text of a decimal number
RECURSIVE DigitsValue(_, _)
DigitsValue(digits, n) ==
    IF n = 0 THEN 0 ELSE 10 * DigitsValue(digits, n - 1) + digits[n]
py_int(v) == DigitsValue(v.text, Len(v.text))
\* text < text: the first character that differs decides, a prefix is smaller
RECURSIVE text_less(_, _, _)
text_less(a, b, i) ==
    IF i > Len(b) THEN FALSE
    ELSE IF i > Len(a) THEN TRUE
    ELSE IF a[i] # b[i] THEN a[i] < b[i]
    ELSE text_less(a, b, i + 1)
\* x < y as Python 2 orders two texts
py_less(x, y) == text_less(x.text, y.text, 1)
\* int(recommendation.playcount) of track t; over the tracks computed once
\* (@@ makes the function a table of its values)
PlayCounts == [t \in AllTracks |-> py_int(PlaycountOf(t))] @@ << >>
Plays(t) == IF t \in DOMAIN PlayCounts THEN PlayCounts[t] ELSE py_int(PlaycountOf(t))

\* ---------------------------------------------------- Python floats
\* Natural numbers of any size: the limbs in base 2^15, lowest first, the
\* highest not 0.
Base == 32768
RECURSIVE BN(_)
BN(n) == IF n = 0 THEN << >> ELSE <<n % Base>> \o BN(n \div Base)
RECURSIVE BNStrip(_)
BNStrip(N) ==
    IF N = << >> \/ N[Len(N)] # 0 THEN N ELSE BNStrip(SubSeq(N, 1, Len(N) - 1))
\* N * k + c for k, c < 2^15
RECURSIVE BNMulAdd(_, _, _)
BNMulAdd(N, k, c) ==
    IF N = << >> THEN BN(c)
    ELSE <<(N[1] * k + c) % Base>> \o BNMulAdd(Tail(N), k, (N[1] * k + c) \div Base)
\* the number of bits of N
BNBitLen(N) ==
    IF N = << >> THEN 0
    ELSE 15 * (Len(N) - 1) + CHOOSE k \in 1..15 : N[Len(N)] \in (2^(k - 1))..(2^k - 1)
\* N * 2^s
BNShl(N, s) ==
    IF N = << >> THEN N
    ELSE [i \in 1..(s \div 15) |-> 0] \o BNMulAdd(N, 2^(s % 15), 0)
\* N \div 2^s
BNShr(N, s) ==
    BNStrip([i \in 1..(Len(N) - (s \div 15)) |->
        (N[i + (s \div 15)] \div 2^(s % 15))
        + (IF i + (s \div 15) < Len(N)
           THEN (N[i + (s \div 15) + 1] % 2^(s % 15)) * 2^(15 - (s % 15)) ELSE 0)])
\* -1, 0, 1 as A is below, equal to or above B
BNCmp(A, B) ==
    IF A = B THEN 0
    ELSE IF \/ Len(A) < Len(B)
            \/ /\ Len(A) = Len(B)
               /\ \E i \in 1..Len(A) : /\ A[i] < B[i]
                                       /\ \A j \in (i + 1)..Len(A) : A[j] = B[j]
    THEN -1 ELSE 1
\* A + B
RECURSIVE BNAdd(_, _)
BNAdd(A, B) ==
    IF A = << >> THEN B
    ELSE IF B = << >> THEN A
    ELSE <<(A[1] + B[1]) % Base>>
         \o BNAdd(BNAdd(Tail(A), Tail(B)), BN((A[1] + B[1]) \div Base))
\* A - B for A >= B
RECURSIVE BNSub(_, _)
BNSub(A, B) ==
    IF B = << >> THEN A
    ELSE IF A[1] >= B[1] THEN BNStrip(<<A[1] - B[1]>> \o BNSub(Tail(A), Tail(B)))
    ELSE <<A[1] + Base - B[1]>> \o BNSub(BNSub(Tail(A), <<1>>), Tail(B))
\* A * B
RECURSIVE BNMul(_, _)
BNMul(A, B) ==
    IF A = << >> \/ B = << >> THEN << >>
    ELSE BNStrip(BNAdd(BNMulAdd(A, B[1], 0), <<0>> \o BNMul(A, Tail(B))))

\* A Python float: sign * m * 2^e with 2^52 <= m < 2^53, or 0.0.  The numbers
\* of the program are far from the largest and the smallest float.
Float(sign, m, e) == [type |-> "float", sign |-> sign, m |-> m, e |-> e]
\* the float nearest to sign * N * 2^e, ties to the even one: a longer N is
\* cut to 53 bits after half of the last kept bit is added, less one when the
\* last kept bit is 0
RECURSIVE Round(_, _, _)
Round(sign, N, e) ==
    IF N = << >> \/ sign = 0 THEN Float(0, << >>, 0)
    ELSE IF BNBitLen(N) <= 53
    THEN Float(sign, BNShl(N, 53 - BNBitLen(N)), e - (53 - BNBitLen(N)))
    ELSE Round(sign,
               BNShr(BNAdd(N, IF BNShr(N, BNBitLen(N) - 53)[1] % 2 = 1
                              THEN BNShl(<<1>>, BNBitLen(N) - 54)
                              ELSE BNSub(BNShl(<<1>>, BNBitLen(N) - 54), <<1>>)),
                     BNBitLen(N) - 53),
               e + (BNBitLen(N) - 53))
\* float(n)
FloatOf(n) == Round(IF n < 0 THEN -1 ELSE 1, BN(Abs(n)), 0)
\* abs(x)
FloatAbs(x) == [x EXCEPT !.sign = Abs(@)]
\* x * y
FloatMul(x, y) == Round(x.sign * y.sign, BNMul(x.m, y.m), x.e + y.e)
\* x - y: the exact difference of A * 2^e and B * 2^e, rounded
FloatSub(x, y) ==
    LET e == IF x.e < y.e THEN x.e ELSE y.e
        A == BNShl(x.m, x.e - e)
        B == BNShl(y.m, y.e - e)
    IN IF y.sign = 0 THEN x
       ELSE IF x.sign = 0 THEN [y EXCEPT !.sign = -y.sign]
       ELSE IF x.sign # y.sign THEN Round(x.sign, BNAdd(A, B), e)
       ELSE IF BNCmp(A, B) >= 0 THEN Round(x.sign, BNSub(A, B), e)
       ELSE Round(-x.sign, BNSub(B, A), e)
\* the largest d in lo..hi with d * B <= R, lo being one such d
RECURSIVE QuotientDigit(_, _, _, _)
QuotientDigit(R, B, lo, hi) ==
    IF lo = hi THEN lo
    ELSE IF BNCmp(BNStrip(BNMulAdd(B, (lo + hi + 1) \div 2, 0)), R) <= 0
    THEN QuotientDigit(R, B, (lo + hi + 1) \div 2, hi)
    ELSE QuotientDigit(R, B, lo, ((lo + hi + 1) \div 2) - 1)
\* long division by B, one limb at a step: N is the quotient so far, k bits of
\* it after the point, R the remainder; it stops when nothing remains or N is
\* 55 bits long, the remainder then being one more bit below the last
RECURSIVE QuotientLimbs(_, _, _, _, _)
QuotientLimbs(sign, N, R, B, k) ==
    IF R = << >> THEN Round(sign, N, -k)
    ELSE IF BNBitLen(N) >= 55 THEN Round(sign, BNMulAdd(N, 2, 1), -k - 1)
    ELSE LET d == QuotientDigit(BNShl(R, 15), B, 0, Base - 1)
         IN QuotientLimbs(sign, BNMulAdd(N, Base, d),
                          BNSub(BNShl(R, 15), BNStrip(BNMulAdd(B, d, 0))), B, k + 15)
\* float(a) / float(b) for integers that a float holds exactly, b not 0
FloatQuotient(a, b) ==
    QuotientLimbs(IF (a < 0) = (b < 0) THEN 1 ELSE -1,
                  BN(Abs(a) \div Abs(b)), BN(Abs(a) % Abs(b)), BN(Abs(b)), 0)
\* -1, 0, 1 as x is below, equal to or above y
FloatCmp(x, y) ==
    IF x.sign # y.sign THEN (IF x.sign < y.sign THEN -1 ELSE 1)
    ELSE IF x.e # y.e THEN (IF x.e < y.e THEN -x.sign ELSE x.sign)
    ELSE x.sign * BNCmp(x.m, y.m)
\* a score that is the int 0 (the 'score': 0 of an empty slot) or None
IntZero == [type |-> "int", sign |-> 0, m |-> << >>, e |-> 0]
NoneScore == [type |-> "NoneType", sign |-> 0, m |-> << >>, e |-> 0]

RemoveAt(s, i) == SubSeq(s, 1, i - 1) \o SubSeq(s, i + 1, Len(s))
Reverse(s) == [i \in 1..Len(s) |-> s[Len(s) + 1 - i]]
Max(a, b) == IF a >= b THEN a ELSE b

\* the first index of a set of indices, 0 when there is none: where a
\* 'for ... in list: if ...: break' loop stops
FirstOf(S) == IF S = {} THEN 0 ELSE CHOOSE i \in S : \A j \in S : i <= j

\* ----------------------------------------------------------- the objects
\* A Recommendation object: its id, its creator and its _dependents list.
NewRecommendation(t, ks) == [id |-> t, knowledge_source |-> ks, dependents |-> << >>]
add_dependent(rec, ks) == [rec EXCEPT !.dependents = Append(@, ks)]
\* DependencyMixin.remove_dependent: nothing on an empty list; list.remove takes
\* the first entry of that source and raises when there is none
remove_dependent(rec, ks) ==
    IF Len(rec.dependents) = 0 THEN [rec |-> rec, err |-> "none"]
    ELSE IF \A j \in 1..Len(rec.dependents) : rec.dependents[j] # ks
    THEN [rec |-> rec, err |-> "ValueError"]
    ELSE [rec |-> [rec EXCEPT !.dependents = RemoveAt(@,
                      CHOOSE j \in 1..Len(@) :
                          /\ @[j] = ks
                          /\ \A k \in 1..(j - 1) : @[k] # ks)],
          err |-> "none"]

\* An Assumption (retractable) or an Assertion (not retractable).
NewAssumption(t, ks, reason) ==
    [recommendation |-> t, knowledge_source |-> ks, reason |-> reason,
     score |-> NoneScore, retractable |-> TRUE]
NewAssertion(t, ks, reason) ==
    [recommendation |-> t, knowledge_source |-> ks, reason |-> reason,
     score |-> NoneScore, retractable |-> FALSE]


\* ------------------------------------------------- the hypothesis log
\* default object equality: an object equals only itself
SameObject(s, j, i) == j = i
\* list.remove(x) for the object x at position i: the first entry equal to x goes
list_remove(s, i) == RemoveAt(s, FirstOf({j \in 1..Len(s) : SameObject(s, j, i)}))

\* resign() as it would be if Assertion did not override it
resign_inherited(log, i) == [log |-> list_remove(log, i), err |-> "none"]

\* resign() of the hypothesis at position i of the log:
\* Assumption.resign removes it, Assertion.resign raises
resign(log, i) ==
    IF log[i].retractable
    THEN [log |-> list_remove(log, i), err |-> "none"]
    ELSE [log |-> log, err |-> "Exception"]
\* register() of a hypothesis
register(log, h) == Append(log, h)
\* Recommendation.register: the candidate joins the pool
Recommendation_register(p, rec) == Append(p, rec)
\* Recommendation.resign of the pool object at position i
Recommendation_resign(p, i) == list_remove(p, i)

\* the most retractable hypotheses one scoring source holds in a log
RetractableCount(log) ==
    LET n(ks) == Cardinality({i \in 1..Len(log) :
                     log[i].knowledge_source = ks /\ log[i].retractable})
    IN Max(n("playcount"), n("tags"))
PermanentIdx(log) == {i \in 1..Len(log) : ~log[i].retractable}
PermCount(log) == Cardinality(PermanentIdx(log))
\* position in the log of the k-th Assertion
PermAt(log, k) ==
    CHOOSE i \in PermanentIdx(log) :
        Cardinality({j \in PermanentIdx(log) : j <= i}) = k

\* ------------------------------ handlers: functions of the program state
\* st: pool, aff, solving, thinking, feed, try, quality, strat, err, and the
\* observations maxr (most retractable hypotheses of one source seen in any
\* intermediate log) and cleared (the pool as empty_pool left it).
Raise(st, e) == [st EXCEPT !.err = e]
Ok(st) == st.err = "none"
SetAff(st, log) == [st EXCEPT !.aff = log, !.maxr = Max(@, RetractableCount(log))]

Hyp_register(st, h) == SetAff(st, register(st.aff, h))
Hyp_resigned(st, r) == IF r.err = "none" THEN SetAff(st, r.log) ELSE Raise(st, r.err)
Hyp_resign(st, i) == Hyp_resigned(st, resign(st.aff, i))
\* the 'for ... : if ...: resign(); break' loops: i is where the loop stops
resign_if(st, i) == IF i = 0 THEN st ELSE Hyp_resign(st, i)

\* blackboard.solving.recommendation
SolvingTrack(st) == st.aff[PermAt(st.aff, st.solving)].recommendation
\* blackboard.solving = affirm, for the Assertion just registered
set_solving(st) == [st EXCEPT !.solving = PermCount(st.aff)]

\* Blackboard.empty_pool: the loop removes from the list it iterates
RECURSIVE empty_pool_loop(_, _)
empty_pool_loop(p, i) ==
    IF i > Len(p) THEN p
    ELSE empty_pool_loop(RemoveAt(p, i), i + 1)
empty_pool(p) == empty_pool_loop(p, 1)

\* considered_songs without the pool's ids
considered_songs_no_pool(st) ==
    {st.aff[i].recommendation : i \in {j \in 1..Len(st.aff) :
        st.aff[j].reason \in {"Initial song", "Disliked by user", "Liked by user"}}}

PermanentReasons == {"Initial song", "Disliked by user", "Liked by user"}
considered_songs(st) ==
    {st.aff[i].recommendation : i \in {j \in 1..Len(st.aff) :
                                   st.aff[j].reason \in PermanentReasons}}
    \cup {st.pool[i].id : i \in 1..Len(st.pool)}

\* data_feed.pop()
pop_feed(st) == [st EXCEPT !.feed = SubSeq(@, 1, Len(@) - 1)]

\* KnowledgeSource.assure_unique: pops the feed until a track is new.  Until
\* the first lookup data_feed is None, and len() of it raises.
RECURSIVE assure_unique(_)
assure_unique(st) ==
    IF st.feed = NoFeed THEN [st |-> Raise(st, "TypeError"), rec |-> NoTrack]
    ELSE IF Len(st.feed) = 0 THEN [st |-> st, rec |-> NoTrack]
    ELSE IF st.feed[Len(st.feed)] \notin considered_songs(st)
    THEN [st |-> pop_feed(st), rec |-> st.feed[Len(st.feed)]]
    ELSE assure_unique(pop_feed(st))

\* rec_toptrack.register() and add_dependent(self), if assure_unique found one
admit(r) ==
    IF r.rec # NoTrack
    THEN [r.st EXCEPT !.pool = Recommendation_register(@,
             add_dependent(NewRecommendation(r.rec, "similar"), "similar"))]
    ELSE r.st

RECURSIVE gather_loop(_, _)
gather_loop(st, count) ==
    IF count <= 0 \/ ~Ok(st) THEN st
    ELSE gather_loop(admit(assure_unique(st)), count - 1)

\* SimilarTrackSource.get_recommendations; fetch is what the provider
\* answers if it is asked
get_recommendations(st, artist, count, fetch) ==
    IF ~Ok(st) THEN st
    ELSE IF st.thinking # artist
    THEN gather_loop([st EXCEPT !.thinking = artist, !.feed = Reverse(fetch)], count)
    ELSE gather_loop(st, count)

\* ------------------------------------------------- feedback handlers
\* response.lower(), a text being the sequence of its characters: each
\* capital letter becomes the small one, any other character stays
lower(response) ==
    LET capitals == <<"A", "B", "C", "D", "E", "F", "G", "H", "I", "J", "K", "L", "M",
                      "N", "O", "P", "Q", "R", "S", "T", "U", "V", "W", "X", "Y", "Z">>
        smalls == <<"a", "b", "c", "d", "e", "f", "g", "h", "i", "j", "k", "l", "m",
                    "n", "o", "p", "q", "r", "s", "t", "u", "v", "w", "x", "y", "z">>
    IN [i \in 1..Len(response) |->
           IF \E k \in 1..26 : capitals[k] = response[i]
           THEN smalls[CHOOSE k \in 1..26 : capitals[k] = response[i]]
           ELSE response[i]]
\* the refill of a reject, from the artist of the reference track
refill(st, recommendation, fetch) ==
    IF recommendation.knowledge_source = "similar"
    THEN get_recommendations(st, ArtistOf(SolvingTrack(st)), 1, fetch)
    ELSE st

\* be_notified making the disliked track the reference
KnowledgeSource_be_notified_solving_no(st, recommendation, response, fetch) ==
    IF ~Ok(st) THEN st
    ELSE IF lower(response) = <<"y", "e", "s">>
    THEN set_solving(Hyp_register(st,
             NewAssertion(recommendation.id, "similar", "Liked by user")))
    ELSE refill(set_solving(Hyp_register(st,
                    NewAssertion(recommendation.id, "similar", "Disliked by user"))),
                recommendation, fetch)

\* be_notified refilling the pool before it records the dislike
KnowledgeSource_be_notified_refill_first(st, recommendation, response, fetch) ==
    IF ~Ok(st) THEN st
    ELSE IF lower(response) = <<"y", "e", "s">>
    THEN set_solving(Hyp_register(st,
             NewAssertion(recommendation.id, "similar", "Liked by user")))
    ELSE Hyp_register(refill(st, recommendation, fetch),
             NewAssertion(recommendation.id, "similar", "Disliked by user"))

\* be_notified recording the like without making it the reference
KnowledgeSource_be_notified_keep_solving(st, recommendation, response, fetch) ==
    IF ~Ok(st) THEN st
    ELSE IF lower(response) = <<"y", "e", "s">>
    THEN Hyp_register(st, NewAssertion(recommendation.id, "similar", "Liked by user"))
    ELSE refill(Hyp_register(st,
                    NewAssertion(recommendation.id, "similar", "Disliked by user")),
                recommendation, fetch)

\* KnowledgeSource.be_notified, as SimilarTrackSource inherits it
KnowledgeSource_be_notified(st, recommendation, response, fetch) ==
    IF ~Ok(st) THEN st
    ELSE IF lower(response) = <<"y", "e", "s">>
    THEN set_solving(Hyp_register(st,
             NewAssertion(recommendation.id, "similar", "Liked by user")))
    ELSE refill(Hyp_register(st,
                    NewAssertion(recommendation.id, "similar", "Disliked by user")),
                recommendation, fetch)

\* be_notified resigning the first hypothesis of the log, whoever made it
TagSource_be_notified_any(st) ==
    IF ~Ok(st) THEN st
    ELSE IF Len(st.aff) = 0 THEN st ELSE Hyp_resign(st, 1)

\* TagSource.be_notified
TagSource_be_notified(st) ==
    IF ~Ok(st) THEN st
    ELSE resign_if(st, FirstOf({j \in 1..Len(st.aff) :
                           st.aff[j].knowledge_source = "tags"}))

\* PlaycountSource._init_strategies
init_strategies ==
    [more |-> <<"more plays", "a lot more plays">>,
     fewer |-> <<"fewer plays", "a lot fewer plays">>]
Pop(s) == SubSeq(s, 1, Len(s) - 1)

\* try_this = None, then the pop from the queue of the direction
pick_direction(st, up) ==
    IF up
    THEN IF Len(st.strat.more) > 0
         THEN [st EXCEPT !.try = st.strat.more[Len(st.strat.more)], !.strat.more = Pop(@)]
         ELSE [st EXCEPT !.try = None]
    ELSE IF Len(st.strat.fewer) > 0
         THEN [st EXCEPT !.try = st.strat.fewer[Len(st.strat.fewer)], !.strat.fewer = Pop(@)]
         ELSE [st EXCEPT !.try = None]
\* the penalty when no strategy is left
penalise(st) ==
    IF st.try = None
    THEN [st EXCEPT !.quality = "POOR", !.strat = init_strategies]
    ELSE st
\* the 'no' branch: st as it was, i its first hypothesis of this source (0 for
\* none), st1 after that hypothesis has resigned
rejected(st, i, st1) ==
    IF ~Ok(st1) THEN st1
    ELSE penalise(pick_direction(st1,
             i = 0 \/ py_less(PlaycountOf(st.aff[i].recommendation),
                              PlaycountOf(SolvingTrack(st1)))))
PlaycountSource_rejected(st, i) == rejected(st, i, resign_if(st, i))

\* PlaycountSource.be_notified
PlaycountSource_be_notified(st, response) ==
    IF ~Ok(st) THEN st
    ELSE IF lower(response) = <<"y", "e", "s">>
    THEN [st EXCEPT !.quality = "GOOD", !.strat = init_strategies]
    ELSE PlaycountSource_rejected(st, FirstOf({j \in 1..Len(st.aff) :
                                          st.aff[j].knowledge_source = "playcount"}))

\* knowledge_source.be_notified(self, response) for one dependent
deliver(st, recommendation, response, fetch, ks) ==
    CASE ks = "similar" -> KnowledgeSource_be_notified(st, recommendation, response, fetch)
      [] ks = "playcount" -> PlaycountSource_be_notified(st, response)
      [] ks = "tags" -> TagSource_be_notified(st)
      [] OTHER -> st

\* DependencyMixin.notify: each dependent in subscription order
RECURSIVE notify_loop(_, _, _, _, _)
notify_loop(st, recommendation, response, fetch, i) ==
    IF i > Len(recommendation.dependents) \/ ~Ok(st) THEN st
    ELSE notify_loop(
             deliver(st, recommendation, response, fetch, recommendation.dependents[i]),
             recommendation, response, fetch, i + 1)
notify(st, recommendation, response, fetch) ==
    notify_loop(st, recommendation, response, fetch, 1)

\* ------------------------------------------------- PlaycountSource
\* A delta of choose() is a Python integer, which has no width; sys.maxint
\* is 2^63 - 1 on the build the program runs on.  <<h, n>> is h * 2^63 + n.
Wide(n) == <<0, n>>
\* sys.maxint and -sys.maxint - 1
MaxInt == <<1, -1>>
MinInt == <<-1, 0>>
WideLess(a, b) == a[1] < b[1] \/ (a[1] = b[1] /\ a[2] < b[2])
WideAbs(a) == IF WideLess(a, Wide(0)) THEN <<-a[1], -a[2]>> ELSE a
Slot(delta, reco, score) == [delta |-> delta, reco |-> reco, score |-> score]
\* the five running bests of choose(); a reco is a pool position, 0 for None
position0 ==
    [s \in {"closest playcount", "a lot more plays", "a lot fewer plays",
            "more plays", "fewer plays"} |->
        IF s \in {"a lot more plays", "fewer plays"}
        THEN Slot(MinInt, 0, IntZero)
        ELSE Slot(MaxInt, 0, IntZero)]

\* a new closest found without the previous one being reclassified
displace_forgotten(pos, delta) == pos

\* the previous closest moves to 'more plays' or 'fewer plays'
displace(pos, delta) ==
    IF WideLess(Wide(delta), pos["closest playcount"].delta)
    THEN [pos EXCEPT !["more plays"] = pos["closest playcount"]]
    ELSE IF WideLess(pos["closest playcount"].delta, Wide(delta))
    THEN [pos EXCEPT !["fewer plays"] = pos["closest playcount"]]
    ELSE pos
step_closest(pos, song, delta, near) ==
    IF WideLess(Wide(Abs(delta)), WideAbs(pos["closest playcount"].delta))
    THEN [displace(pos, delta) EXCEPT !["closest playcount"] = Slot(Wide(delta), song, near)]
    ELSE pos
step_a_lot_more(pos, song, delta, diff) ==
    IF delta > 0 /\ WideLess(pos["a lot more plays"].delta, Wide(delta))
    THEN [pos EXCEPT !["a lot more plays"] = Slot(Wide(delta), song, diff)] ELSE pos
step_a_lot_fewer(pos, song, delta, diff) ==
    IF delta < 0 /\ WideLess(Wide(delta), pos["a lot fewer plays"].delta)
    THEN [pos EXCEPT !["a lot fewer plays"] = Slot(Wide(delta), song, diff)] ELSE pos
step_more(pos, song, delta, near) ==
    IF delta > 0 /\ WideLess(Wide(delta), pos["more plays"].delta)
       /\ WideLess(pos["closest playcount"].delta, Wide(delta))
    THEN [pos EXCEPT !["more plays"] = Slot(Wide(delta), song, near)] ELSE pos
step_fewer(pos, song, delta, near) ==
    IF delta < 0 /\ WideLess(pos["fewer plays"].delta, Wide(delta))
       /\ WideLess(Wide(delta), pos["closest playcount"].delta)
    THEN [pos EXCEPT !["fewer plays"] = Slot(Wide(delta), song, near)] ELSE pos

\* one iteration of the loop over the pool: diff is diff_playcount, near is
\* 100 - diff_playcount
position_scored(pos, song, delta, diff, near) ==
    step_fewer(
        step_more(
            step_a_lot_fewer(
                step_a_lot_more(
                    step_closest(pos, song, delta, near),
                    song, delta, diff),
                song, delta, diff),
            song, delta, near),
        song, delta, near)
\* abs((float(delta_playcount) / float(playcount)) * 100)
diff_playcount(delta, ref) == FloatAbs(FloatMul(FloatQuotient(delta, ref), FloatOf(100)))
\* diff_playcount and 100 - diff_playcount over the play counts of the tracks,
\* computed once (@@ makes the function a table of its values)
PlaycountScores ==
    [x \in {<<Plays(t) - Plays(r), Plays(r)>> : t \in AllTracks,
                                               r \in {q \in AllTracks : Plays(q) # 0}} |->
        [diff |-> diff_playcount(x[1], x[2]),
         near |-> FloatSub(FloatOf(100), diff_playcount(x[1], x[2]))]] @@ << >>
position_step(pos, song, delta, ref) ==
    position_scored(pos, song, delta, PlaycountScores[<<delta, ref>>].diff,
                    PlaycountScores[<<delta, ref>>].near)

RECURSIVE position_loop(_, _, _, _)
position_loop(pos, p, i, ref) ==
    IF i > Len(p) THEN pos
    ELSE position_loop(
             position_step(pos, i, Plays(p[i].id) - Plays(ref), Plays(ref)),
             p, i + 1, ref)
positions(p, ref) == position_loop(position0, p, 1, ref)

next_best_idea ==
    [s \in {"a lot more plays", "more plays", "a lot fewer plays", "fewer plays"} |->
        CASE s = "a lot more plays" -> "more plays"
          [] s = "more plays" -> "a lot more plays"
          [] s = "a lot fewer plays" -> "fewer plays"
          [] OTHER -> "a lot fewer plays"]

\* _priority_fallback going straight to 'closest playcount', the paired
\* strategy skipped
priority_fallback_unpaired(pos, try) ==
    IF pos[try].reco # 0 THEN [idea |-> pos[try], try |-> try, err |-> "none"]
    ELSE [idea |-> pos["closest playcount"], try |-> "closest playcount", err |-> "none"]

\* PlaycountSource._priority_fallback: the slot used and the strategy kept
priority_fallback(pos, try) ==
    IF pos[try].reco # 0 THEN [idea |-> pos[try], try |-> try, err |-> "none"]
    ELSE IF try \notin DOMAIN next_best_idea
    THEN [idea |-> pos[try], try |-> try, err |-> "KeyError"]
    ELSE IF pos[next_best_idea[try]].reco = 0
    THEN [idea |-> pos["closest playcount"], try |-> "closest playcount", err |-> "none"]
    ELSE [idea |-> pos[next_best_idea[try]], try |-> next_best_idea[try], err |-> "none"]

\* the Assumption of _register_strategy
strategy_assumption(st, reco, score) ==
    [NewAssumption(st.pool[reco].id, "playcount", "Try " \o st.try)
        EXCEPT !.score = IF score.sign # 0 THEN score ELSE NoneScore]
\* recommendation.add_dependent(self), unless an exception came first
subscribe(st, reco, ks) ==
    IF ~Ok(st) THEN st ELSE [st EXCEPT !.pool[reco] = add_dependent(@, ks)]
register_subscribe(st, h, reco, ks) ==
    IF ~Ok(st) THEN st ELSE subscribe(Hyp_register(st, h), reco, ks)

\* _register_strategy registering the new hypothesis before it resigns the old
register_strategy_late(st, reco, score, i) ==
    IF i # 0 /\ st.aff[i].recommendation = st.pool[reco].id THEN st
    ELSE subscribe(resign_if(Hyp_register(st, strategy_assumption(st, reco, score)), i),
                   reco, "playcount")
PlaycountSource_register_strategy_late(st, reco, score) ==
    register_strategy_late(st, reco, score,
        FirstOf({j \in 1..Len(st.aff) :
            st.aff[j].knowledge_source = "playcount" /\ st.aff[j].retractable}))

\* _register_strategy without its early return for the same recommendation
register_strategy_again(st, reco, score, i) ==
    register_subscribe(resign_if(st, i), strategy_assumption(st, reco, score),
                       reco, "playcount")
\* the body of _register_strategy, i being where its loop stops (0: nowhere)
register_strategy(st, reco, score, i) ==
    IF i # 0 /\ st.aff[i].recommendation = st.pool[reco].id THEN st
    ELSE register_subscribe(resign_if(st, i), strategy_assumption(st, reco, score),
                            reco, "playcount")
\* PlaycountSource._register_strategy for the pool object at position reco
PlaycountSource_register_strategy(st, reco, score) ==
    register_strategy(st, reco, score,
        FirstOf({j \in 1..Len(st.aff) :
            st.aff[j].knowledge_source = "playcount" /\ st.aff[j].retractable}))

NoIdea == [none |-> TRUE, score |-> NoneScore, reco |-> 0]
Idea(score, reco) == [none |-> FALSE, score |-> score, reco |-> reco]

\* best_idea['score'] *= 1.25 or 0.75
quality_score(quality, score) ==
    IF quality = "GOOD" THEN FloatMul(score, FloatQuotient(5, 4))
    ELSE IF quality = "POOR" THEN FloatMul(score, FloatQuotient(3, 4))
    ELSE score
\* the scores of the slots over the play counts of the tracks, and each
\* multiplied, computed once
QualityScores ==
    [x \in {"GOOD", "POOR"}
            \X ({IntZero} \cup {PlaycountScores[d].diff : d \in DOMAIN PlaycountScores}
                          \cup {PlaycountScores[d].near : d \in DOMAIN PlaycountScores}) |->
        quality_score(x[1], x[2])] @@ << >>
apply_quality(quality, score) ==
    IF <<quality, score>> \in DOMAIN QualityScores THEN QualityScores[<<quality, score>>]
    ELSE quality_score(quality, score)
choose_register(st, reco, score) ==
    [st |-> PlaycountSource_register_strategy(st, reco, score),
     idea |-> Idea(score, reco)]
choose_with(st, fb) ==
    IF fb.err # "none"
    THEN [st |-> Raise([st EXCEPT !.try = fb.try], fb.err), idea |-> NoIdea]
    ELSE choose_register([st EXCEPT !.try = fb.try], fb.idea.reco,
                         apply_quality(st.quality, fb.idea.score))

\* PlaycountSource.choose
PlaycountSource_choose(st) ==
    IF Len(st.pool) = 0 THEN [st |-> st, idea |-> NoIdea]
    ELSE IF Plays(SolvingTrack(st)) = 0
    THEN [st |-> Raise(st, "ZeroDivisionError"), idea |-> NoIdea]
    ELSE choose_with(st,
             priority_fallback(positions(st.pool, SolvingTrack(st)),
                 IF st.try = None THEN "closest playcount" ELSE st.try))

\* ------------------------------------------------------- TagSource
TagLimit == 19
\* TagSource.tag_song: the tags a Recommendation gets, cut to the limit
tag_song(t) ==
    SubSeq(TopTagsOf(t), 1,
           IF Len(TopTagsOf(t)) < TagLimit THEN Len(TopTagsOf(t)) ELSE TagLimit)

tag_match_count(tags_to_match, song_tags) ==
    Cardinality({k \in 1..Len(tags_to_match) :
        \E m \in 1..Len(song_tags) : song_tags[m] = tags_to_match[k]})

\* the comparison made with >=: the last candidate wins a tie
better_or_equal(bestc, n, i) == IF n >= bestc[1] THEN <<n, i>> ELSE bestc

\* 'if tag_match_count > best_tag_count'
better(bestc, n, i) == IF n > bestc[1] THEN <<n, i>> ELSE bestc
\* the loop of TagSource.choose: <<best_tag_count, best_tag_match>>
RECURSIVE tag_loop(_, _, _, _)
tag_loop(bestc, p, i, tags_to_match) ==
    IF i > Len(p) THEN bestc
    ELSE tag_loop(better(bestc, tag_match_count(tags_to_match, tag_song(p[i].id)), i),
                  p, i + 1, tags_to_match)

\* the Assumption of _register_assumption; its recommendation may be None
tag_assumption(st, song) ==
    [NewAssumption(IF song.reco = 0 THEN NoTrack ELSE st.pool[song.reco].id,
                   "tags", "Closest match on tags")
        EXCEPT !.score = song.score]
\* assumption.register(), then song['reco'].add_dependent(self)
tag_register(st, h, song) ==
    IF ~Ok(st) THEN st
    ELSE IF song.reco = 0 THEN Raise(Hyp_register(st, h), "AttributeError")
    ELSE subscribe(Hyp_register(st, h), song.reco, "tags")
\* the body of _register_assumption, i being where its loop stops (0: nowhere)
register_assumption(st, song, i) ==
    IF i # 0 /\ (st.aff[i].recommendation = NoTrack \/ song.reco = 0)
    THEN Raise(st, "AttributeError")
    ELSE IF i # 0 /\ st.aff[i].recommendation = st.pool[song.reco].id THEN st
    ELSE tag_register(resign_if(st, i), tag_assumption(st, song), song)
\* TagSource._register_assumption for song = {score, reco}; reco 0 is None
TagSource_register_assumption(st, song) ==
    register_assumption(st, song,
        FirstOf({j \in 1..Len(st.aff) :
            st.aff[j].knowledge_source = "tags" /\ st.aff[j].retractable}))

\* (best_tag_count / float(len(tags_to_match))) * 100.0
tag_score(count, len) == FloatMul(FloatQuotient(count, len), FloatOf(100))
\* tag_score over the tag lists of the tracks, computed once
TagScores ==
    [x \in UNION {(0..Len(tag_song(t))) \X {Len(tag_song(t))} :
                     t \in {q \in AllTracks : Len(tag_song(q)) # 0}} |->
        tag_score(x[1], x[2])] @@ << >>
choose_tags(st, song) ==
    [st |-> TagSource_register_assumption(st, song), idea |-> song]
\* TagSource.choose
TagSource_choose(st) ==
    IF ~Ok(st) THEN [st |-> st, idea |-> NoIdea]
    ELSE IF Len(tag_song(SolvingTrack(st))) = 0
    THEN [st |-> Raise(st, "ZeroDivisionError"), idea |-> NoIdea]
    ELSE choose_tags(st,
             Idea(TagScores[<<tag_loop(<<0, 0>>, st.pool, 1, tag_song(SolvingTrack(st)))[1],
                               Len(tag_song(SolvingTrack(st)))>>],
                  tag_loop(<<0, 0>>, st.pool, 1, tag_song(SolvingTrack(st)))[2]))

\* ------------------------------------------------------- Controller
\* the comparison of the two suggestions
\* the comparison made with > where the code has >=
arbitrate_strict(ps, ts) ==
    IF ~Ok(ts.st) THEN [st |-> ts.st, reco |-> 0, ps |-> ps.idea, ts |-> NoIdea]
    ELSE IF ~ps.idea.none /\ ~ts.idea.none
    THEN IF FloatCmp(ps.idea.score, ts.idea.score) > 0
         THEN [st |-> ts.st, reco |-> ps.idea.reco, ps |-> ps.idea, ts |-> ts.idea]
         ELSE [st |-> ts.st, reco |-> ts.idea.reco, ps |-> ps.idea, ts |-> ts.idea]
    ELSE IF ps.idea.none
    THEN [st |-> ts.st, reco |-> ts.idea.reco, ps |-> ps.idea, ts |-> ts.idea]
    ELSE [st |-> ts.st, reco |-> ps.idea.reco, ps |-> ps.idea, ts |-> ts.idea]

\* recommend()'s locals and its answer; tagmatch_suggestion is not assigned
\* when TagSource.choose raises
Suggested(ps, ts, reco) ==
    [st |-> ts.st, reco |-> reco, ps |-> ps.idea,
     ts |-> IF Ok(ts.st) THEN ts.idea ELSE NoIdea]
arbitrate(ps, ts) ==
    IF ~Ok(ts.st) THEN Suggested(ps, ts, 0)
    ELSE IF ~ps.idea.none /\ ~ts.idea.none
    THEN IF FloatCmp(ps.idea.score, ts.idea.score) >= 0
         THEN Suggested(ps, ts, ps.idea.reco)
         ELSE Suggested(ps, ts, ts.idea.reco)
    ELSE IF ps.idea.none THEN Suggested(ps, ts, ts.idea.reco)
    ELSE Suggested(ps, ts, ps.idea.reco)
recommend_tags(ps) == arbitrate(ps, TagSource_choose(ps.st))
\* Controller.recommend: reco is a pool position, 0 for None
recommend(st) ==
    IF Len(st.pool) = 0 THEN [st |-> st, reco |-> 0, ps |-> NoIdea, ts |-> NoIdea]
    ELSE recommend_tags(PlaycountSource_choose(st))

GatherCount == 4
\* empty_pool() and the gathering for the accepted track
clear_and_gather(st, recommendation, fetch) ==
    IF ~Ok(st) THEN st
    ELSE get_recommendations(
             [st EXCEPT !.pool = empty_pool(@), !.cleared = empty_pool(st.pool)],
             ArtistOf(recommendation.id), GatherCount, fetch)
\* Controller.like
like(st, recommendation, fetch) ==
    clear_and_gather(notify(st, recommendation, <<"y", "e", "s">>, fetch), recommendation, fetch)

\* Controller.dislike of the pool object at position reco
dislike(st, reco, fetch) ==
    notify([st EXCEPT !.pool = Recommendation_resign(@, reco)], st.pool[reco], <<"n", "o">>, fetch)

\* InfoSource.get_info: the seed track as the provider spells it
get_info(st, track) ==
    set_solving(Hyp_register(st, NewAssertion(track, "info", "Initial song")))

VARIABLES pc, err, pool, affirmations, solving, thinking_about, data_feed,
          try_this, source_quality, strategies, best, likes,
          playcount_suggestion, tagmatch_suggestion,
          lastOp, lastArg, cleared, maxRetr

vars == <<pc, err, pool, affirmations, solving, thinking_about, data_feed,
          try_this, source_quality, strategies, best, likes,
          playcount_suggestion, tagmatch_suggestion,
          lastOp, lastArg, cleared, maxRetr>>

\* ------------------------------------------------------------ the state
\* the program state the handlers work on
Current ==
    [pool |-> pool, aff |-> affirmations, solving |-> solving,
     thinking |-> thinking_about, feed |-> data_feed, try |-> try_this,
     quality |-> source_quality, strat |-> strategies, err |-> err,
     maxr |-> RetractableCount(affirmations), cleared |-> cleared]

Becomes(st) ==
    /\ pool' = st.pool
    /\ affirmations' = st.aff
    /\ solving' = st.solving
    /\ thinking_about' = st.thinking
    /\ data_feed' = st.feed
    /\ try_this' = st.try
    /\ source_quality' = st.quality
    /\ strategies' = st.strat
    /\ err' = st.err
    /\ maxRetr' = st.maxr
    /\ cleared' = st.cleared

\* Controller.__init__ builds the blackboard and the four sources.
\* KnowledgeSource.__init__ reads API_KEY as a global name; the module defines
\* it only as a class attribute, so the construction raises NameError unless
\* the deployment defines the global.
Init ==
    /\ pc \in {"start", "crashed"}
    /\ err = IF pc = "start" THEN "none" ELSE "NameError"
    /\ pool = << >>
    /\ affirmations = << >>
    /\ solving = 0
    /\ thinking_about = None
    /\ data_feed = NoFeed
    /\ try_this = None
    /\ source_quality = None
    /\ strategies = init_strategies
    /\ best = 0
    /\ likes = 0
    /\ playcount_suggestion = NoIdea
    /\ tagmatch_suggestion = NoIdea
    /\ lastOp = "init"
    /\ lastArg = 0
    /\ cleared = << >>
    /\ maxRetr = 0

\* Controller.run up to its loop: the seed is loaded and the pool gathered.
\* The user types the track and its artist, as the provider spells it or not.
StartRun ==
    /\ pc = "start"
    /\ \E track \in Tracks, fetch \in Feeds :
       \E artist \in {ArtistOf(track), Alias} :
          /\ Becomes(get_recommendations(get_info(Current, track), artist, GatherCount, fetch))
          /\ lastArg' = track
    /\ pc' = "recommend"
    /\ lastOp' = "start"
    /\ UNCHANGED <<best, likes, playcount_suggestion, tagmatch_suggestion>>

\* what the loop does with recommend()'s answer r
Recommended(r) ==
    /\ Becomes(r.st)
    /\ best' = r.reco
    /\ playcount_suggestion' = r.ps
    /\ tagmatch_suggestion' = r.ts
    /\ lastArg' = IF r.reco = 0 THEN NoTrack ELSE pool[r.reco].id
    /\ pc' = IF ~Ok(r.st) THEN "crashed"
             ELSE IF r.reco = 0 THEN "done" ELSE "ask"

\* the loop's call of recommend()
Recommend ==
    /\ pc = "recommend"
    /\ Recommended(recommend(Current))
    /\ lastOp' = "recommend"
    /\ UNCHANGED likes

\* the provider is asked for a feed only when the artist changes
FeedsFor(artist) == IF thinking_about # artist THEN Feeds ELSE {<< >>}

\* the loop goes on, unless the handler raised; recommend()'s locals are gone
Answered(st) ==
    /\ Becomes(st)
    /\ playcount_suggestion' = NoIdea
    /\ tagmatch_suggestion' = NoIdea
    /\ pc' = IF Ok(st) THEN "recommend" ELSE "crashed"

\* the user answers yes, and yes to another recommendation
Like ==
    /\ pc = "ask"
    /\ likes < MaxLikes
    /\ \E fetch \in FeedsFor(ArtistOf(pool[best].id)) :
          Answered(like(Current, pool[best], fetch))
    /\ likes' = likes + 1
    /\ lastOp' = "like"
    /\ lastArg' = pool[best].id
    /\ best' = 0

\* the user answers anything but yes
Dislike ==
    /\ pc = "ask"
    /\ \E fetch \in FeedsFor(ArtistOf(SolvingTrack(Current))) :
          Answered(dislike(Current, best, fetch))
    /\ lastOp' = "dislike"
    /\ lastArg' = pool[best].id
    /\ best' = 0
    /\ UNCHANGED likes

\* the user answers yes, and no to another recommendation
Quit ==
    /\ pc = "ask"
    /\ pc' = "done"
    /\ lastOp' = "quit"
    /\ UNCHANGED <<err, pool, affirmations, solving, thinking_about, data_feed,
                   try_this, source_quality, strategies, best, likes,
                   playcount_suggestion, tagmatch_suggestion,
                   lastArg, cleared, maxRetr>>

Next == StartRun \/ Recommend \/ Like \/ Dislike \/ Quit

Spec == Init /\ [][Next]_vars

\* ------------------------- a session in which the user only rejects
\* Controller.run up to its loop, for any seed and any feed of the provider
StartWith(feeds) ==
    /\ pc = "start"
    /\ \E track \in AllTracks, fetch \in feeds :
          /\ Becomes(get_recommendations(get_info(Current, track), ArtistOf(track),
                                         GatherCount, fetch))
          /\ lastArg' = track
    /\ pc' = "recommend"
    /\ lastOp' = "start"
    /\ UNCHANGED <<best, likes, playcount_suggestion, tagmatch_suggestion>>
StartSession == StartWith(SessionFeeds)

NextReject == StartSession \/ Recommend \/ Dislike

SpecReject == Init /\ [][NextReject]_vars
\* one turn of the loop of Controller.run: recommend() or the user's answer is
\* handled; either always moves pc on, so the loop's steps are told by pc alone
LoopStep ==
    /\ pc \in {"recommend", "ask"}
    /\ pc' \in {"recommend", "ask", "done", "crashed"}
\* once started, the loop of Controller.run runs on until it breaks or raises
SpecRejectFair == Init /\ [][NextReject]_vars /\ WF_pc(LoopStep)

\* --------------------------------- choose() called on an agent directly
\* a call of choose() made between two turns of the loop; lastArg tells a call
\* that follows a call of the same agent (2) from a first one (1)
Chosen(st, op) ==
    /\ Becomes(st)
    /\ pc' = IF Ok(st) THEN "recommend" ELSE "crashed"
    /\ lastOp' = op
    /\ lastArg' = IF lastOp = op THEN 2 ELSE 1
    /\ UNCHANGED <<best, likes>>
\* source_playcount.choose()
PlaycountChoose ==
    /\ pc = "recommend"
    /\ LET c == PlaycountSource_choose(Current)
       IN /\ Chosen(c.st, "playcount.choose")
          /\ playcount_suggestion' = c.idea
    /\ UNCHANGED tagmatch_suggestion
\* source_tags.choose()
TagChoose ==
    /\ pc = "recommend"
    /\ LET c == TagSource_choose(Current)
       IN /\ Chosen(c.st, "tags.choose")
          /\ tagmatch_suggestion' = IF Ok(c.st) THEN c.idea ELSE NoIdea
    /\ UNCHANGED playcount_suggestion

\* the same start, over the shorter feeds
StartChoose == StartWith(DistinctSeqsUpTo(AllTracks, MaxChoose))

NextChoose == StartChoose \/ Recommend \/ Dislike \/ PlaycountChoose \/ TagChoose

SpecChoose == Init /\ [][NextChoose]_vars
\* the same calls in the sessions where the user also accepts
NextChooseLikes == Next \/ PlaycountChoose \/ TagChoose
SpecChooseLikes == Init /\ [][NextChooseLikes]_vars

\* --------------------------------- the hypothesis log on its own
\* register() and resign() called on hypotheses directly, in any order
HypSamples ==
    {NewAssertion(t, "info", "Initial song") : t \in 1..2}
    \cup {NewAssertion(t, "similar", "Liked by user") : t \in 1..2}
    \cup {NewAssumption(t, "tags", "Closest match on tags") : t \in 1..2}
    \cup {NewAssumption(t, "playcount", "Try closest playcount") : t \in 1..2}

LogFrame ==
    UNCHANGED <<pc, pool, solving, thinking_about, data_feed, try_this,
                source_quality, strategies, best, likes, cleared, maxRetr,
                playcount_suggestion, tagmatch_suggestion>>

InitLog ==
    /\ pc = "log"
    /\ err = "none"
    /\ pool = << >>
    /\ affirmations = << >>
    /\ solving = 0
    /\ thinking_about = None
    /\ data_feed = NoFeed
    /\ try_this = None
    /\ source_quality = None
    /\ strategies = init_strategies
    /\ best = 0
    /\ likes = 0
    /\ playcount_suggestion = NoIdea
    /\ tagmatch_suggestion = NoIdea
    /\ lastOp = "init"
    /\ lastArg = 0
    /\ cleared = << >>
    /\ maxRetr = 0

LogRegister ==
    /\ pc = "log"
    /\ Len(affirmations) < MaxLog
    /\ \E h \in HypSamples : affirmations' = register(affirmations, h)
    /\ err' = "none"
    /\ lastOp' = "register"
    /\ lastArg' = Len(affirmations) + 1
    /\ LogFrame

LogResign ==
    /\ pc = "log"
    /\ \E i \in 1..Len(affirmations) :
          LET r == resign(affirmations, i)
          IN /\ affirmations' = r.log
             /\ err' = r.err
             /\ lastArg' = i
    /\ lastOp' = "resign"
    /\ LogFrame

NextLog == LogRegister \/ LogResign

SpecLog == InitLog /\ [][NextLog]_vars

\* ------------------------------------------- the pool on its own
\* register(), resign(), add_dependent() and remove_dependent() called on
\* candidates directly, in any order; err is the outcome of the last call
PoolFrame ==
    UNCHANGED <<pc, affirmations, solving, thinking_about, data_feed, try_this,
                source_quality, strategies, best, likes, cleared, maxRetr,
                playcount_suggestion, tagmatch_suggestion>>

InitPool ==
    /\ pc = "pool"
    /\ err = "none"
    /\ pool = << >>
    /\ affirmations = << >>
    /\ solving = 0
    /\ thinking_about = None
    /\ data_feed = NoFeed
    /\ try_this = None
    /\ source_quality = None
    /\ strategies = init_strategies
    /\ best = 0
    /\ likes = 0
    /\ playcount_suggestion = NoIdea
    /\ tagmatch_suggestion = NoIdea
    /\ lastOp = "init"
    /\ lastArg = 0
    /\ cleared = << >>
    /\ maxRetr = 0

PoolRegister ==
    /\ pc = "pool"
    /\ Len(pool) < MaxPool
    /\ \E t \in 1..2 :
          /\ pool' = Recommendation_register(pool, NewRecommendation(t, "similar"))
          /\ lastArg' = t
    /\ err' = "none"
    /\ lastOp' = "register"
    /\ PoolFrame

PoolResign ==
    /\ pc = "pool"
    /\ \E i \in 1..Len(pool) :
          /\ pool' = Recommendation_resign(pool, i)
          /\ lastArg' = pool[i].id
    /\ err' = "none"
    /\ lastOp' = "resign"
    /\ PoolFrame

Sources == {"similar", "playcount", "tags"}
RECURSIVE SubscriptionCount(_, _)
SubscriptionCount(p, i) ==
    IF i > Len(p) THEN 0 ELSE Len(p[i].dependents) + SubscriptionCount(p, i + 1)

\* pool[i].add_dependent(ks)
PoolAddDependent ==
    /\ pc = "pool"
    /\ SubscriptionCount(pool, 1) < MaxPool
    /\ \E i \in 1..Len(pool), ks \in Sources :
          /\ pool' = [pool EXCEPT ![i] = add_dependent(@, ks)]
          /\ lastArg' = i
    /\ err' = "none"
    /\ lastOp' = "add_dependent"
    /\ PoolFrame

\* pool[i].remove_dependent(ks)
PoolRemoveDependent ==
    /\ pc = "pool"
    /\ \E i \in 1..Len(pool), ks \in Sources :
          LET r == remove_dependent(pool[i], ks)
          IN /\ pool' = [pool EXCEPT ![i] = r.rec]
             /\ err' = r.err
             /\ lastArg' = i
    /\ lastOp' = "remove_dependent"
    /\ PoolFrame

NextPool == PoolRegister \/ PoolResign \/ PoolAddDependent \/ PoolRemoveDependent

SpecPool == InitPool /\ [][NextPool]_vars

\* ================================================================ claims
Ids(p) == {p[i].id : i \in 1..Len(p)}
Permanent(log) == {i \in 1..Len(log) : ~log[i].retractable}
Disliked(log, t) ==
    {i \in 1..Len(log) : /\ log[i].reason = "Disliked by user"
                         /\ log[i].recommendation = t}

\* C1: after like() has cleared the pool and before the gathering agent
\* refills it, the pool is empty.
C1_ClearedPoolIsEmpty == lastOp = "like" => cleared = << >>

\* C2: no candidate in the pool has the identity of a candidate that a
\* permanent hypothesis (initial, liked or disliked) refers to.
C2_PoolDisjointFromPermanent ==
    \A i \in Permanent(affirmations) : affirmations[i].recommendation \notin Ids(pool)

\* C3: recommend() returns no result exactly when the pool is empty, and on a
\* non-empty pool it returns a member of the pool without raising an error.
C3_RecommendNeverRaises ==
    lastOp = "recommend" =>
        /\ err = "none"
        /\ best = 0 <=> Len(pool) = 0
        /\ best \in 0..Len(pool)

\* C4: in every state, the intermediate logs inside choose() and notify()
\* included, the tag agent and the playcount agent each hold at most one
\* retractable hypothesis.
C4_OneRetractablePerAgent ==
    /\ maxRetr <= 1
    /\ RetractableCount(affirmations) <= 1
\* the playcount agent's hypothesis was registered after a like, which had
\* left its previous one in the log: the old one was resigned for it
C4_Witness ==
    /\ lastOp = "recommend"
    /\ err = "none"
    /\ maxRetr = 1
    /\ \E i, j \in 1..Len(affirmations) :
          /\ i < j
          /\ affirmations[i].reason = "Liked by user"
          /\ affirmations[j].knowledge_source = "playcount"
          /\ affirmations[j].retractable

\* C5 as stated: once the seed is loaded, solving is the last permanent
\* hypothesis of the log.
C5_SolvingIsLastPermanent ==
    solving # 0 => solving = PermCount(affirmations)
\* C5 amended: once the seed is loaded, solving is the last hypothesis of the
\* log that is an initial or a liked one; a disliked one never becomes solving.
References(log) ==
    {i \in 1..Len(log) : log[i].reason \in {"Initial song", "Liked by user"}}
C5_SolvingIsLastReference ==
    solving # 0 =>
        /\ solving \in 1..PermCount(affirmations)
        /\ PermAt(affirmations, solving) \in References(affirmations)
        /\ \A i \in References(affirmations) : i <= PermAt(affirmations, solving)
C5_Witness ==
    /\ solving # 0
    /\ likes > 0
    /\ \E i \in 1..Len(affirmations) :
          /\ affirmations[i].reason = "Disliked by user"
          /\ i > PermAt(affirmations, solving)

\* C6: the identities of the candidates in the pool are pairwise distinct.
C6_PoolIdsDistinct ==
    \A i, j \in 1..Len(pool) : i # j => pool[i].id # pool[j].id
C6_Witness ==
    /\ lastOp = "like"
    /\ cleared # << >>
    /\ Len(pool) > Len(cleared)

\* C7: a rejected candidate is out of the pool and has exactly one permanent
\* disliked hypothesis when dislike() returns; in every later state it is not
\* in the pool and recommend() does not return it.
C7_RejectedStaysOut ==
    /\ lastOp = "dislike" => Disliked(affirmations, lastArg) # {}
    /\ \A i \in 1..Len(affirmations) :
          affirmations[i].reason = "Disliked by user" =>
             /\ ~affirmations[i].retractable
             /\ Cardinality(Disliked(affirmations, affirmations[i].recommendation)) = 1
             /\ affirmations[i].recommendation \notin Ids(pool)
             /\ (lastOp = "recommend" => lastArg # affirmations[i].recommendation)
C7_Witness ==
    /\ lastOp = "recommend"
    /\ best # 0
    /\ data_feed # << >>
    /\ \E i \in 1..Len(affirmations) : affirmations[i].reason = "Disliked by user"

\* C8: like() records one new permanent liked hypothesis for the accepted
\* candidate and makes it solving; recommend() and dislike() leave solving
\* alone, so later scoring is relative to the accepted candidate.
C8_LikedBecomesSolving ==
    [][/\ lastOp' = "like" =>
            /\ PermCount(affirmations') = PermCount(affirmations) + 1
            /\ solving' = PermCount(affirmations')
            /\ affirmations'[PermAt(affirmations', solving')]
                  = NewAssertion(lastArg', "similar", "Liked by user")
            /\ lastArg' = pool[best].id
       /\ lastOp' \in {"recommend", "dislike"} =>
            /\ solving' = solving
            /\ SolvingTrack([aff |-> affirmations', solving |-> solving'])
                  = SolvingTrack([aff |-> affirmations, solving |-> solving])]_vars
C8_Witness ==
    /\ lastOp = "recommend"
    /\ best # 0
    /\ likes > 0
    /\ affirmations[PermAt(affirmations, solving)].reason = "Liked by user"
    /\ \E i \in 1..Len(affirmations) :
          /\ affirmations[i].reason = "Disliked by user"
          /\ i > PermAt(affirmations, solving)

\* C9: a permanent hypothesis is never removed from the log and no step of
\* the cycle raises the error of resigning one.
PermanentEntries(log) == SelectSeq(log, LAMBDA h : ~h.retractable)
C9_PermanentNeverRetracted ==
    [][/\ err' # "Exception"
       /\ Len(PermanentEntries(affirmations')) >= Len(PermanentEntries(affirmations))
       /\ SubSeq(PermanentEntries(affirmations'), 1, Len(PermanentEntries(affirmations)))
             = PermanentEntries(affirmations)]_vars
C9_Witness ==
    /\ lastOp = "dislike"
    /\ err = "none"
    /\ maxRetr = 1
    /\ \A i \in 1..Len(affirmations) : ~affirmations[i].retractable

\* C10: resign() of a permanent hypothesis of the log raises and leaves the
\* log as it was; resign() of a retractable one raises nothing and removes
\* that entry alone, the others keeping their order.
C10_ResignContract ==
    [][(pc = "log" /\ lastOp' = "resign") =>
         LET i == lastArg'
         IN IF affirmations[i].retractable
            THEN /\ err' = "none"
                 /\ Len(affirmations') = Len(affirmations) - 1
                 /\ \A j \in 1..Len(affirmations') :
                       affirmations'[j] = IF j < i THEN affirmations[j]
                                          ELSE affirmations[j + 1]
            ELSE /\ err' = "Exception"
                 /\ affirmations' = affirmations]_vars
C10_Witness ==
    /\ pc = "log"
    /\ lastOp = "resign"
    /\ err = "Exception"
    /\ Len(affirmations) = MaxLog
    /\ \E i \in 1..Len(affirmations) : affirmations[i].retractable

\* C11: registering a candidate whose identity a candidate of the pool
\* already has is rejected with an error and leaves the pool as it was.
C11_DuplicateAdmissionRejected ==
    [][(pc = "pool" /\ lastOp' = "register" /\ lastArg' \in Ids(pool)) =>
          /\ pool' = pool
          /\ err' # "none"]_vars

\* C12: when both scoring agents return a candidate, recommend() returns the
\* candidate of the agent whose score is strictly higher, and the playcount
\* agent's candidate when the scores are equal.
ScoreLess(x, y) == FloatCmp(x, y) < 0
C12_ArbiterPicksHigherScore ==
    (lastOp = "recommend" /\ err = "none"
        /\ ~playcount_suggestion.none /\ ~tagmatch_suggestion.none) =>
       /\ ScoreLess(tagmatch_suggestion.score, playcount_suggestion.score)
             => best = playcount_suggestion.reco
       /\ ScoreLess(playcount_suggestion.score, tagmatch_suggestion.score)
             => best = tagmatch_suggestion.reco
       /\ playcount_suggestion.score = tagmatch_suggestion.score
             => best = playcount_suggestion.reco
\* equal scores for two different candidates
C12_Witness ==
    /\ lastOp = "recommend"
    /\ err = "none"
    /\ playcount_suggestion.score = tagmatch_suggestion.score
    /\ playcount_suggestion.reco # tagmatch_suggestion.reco
    /\ tagmatch_suggestion.reco # 0
    /\ best = playcount_suggestion.reco

\* the playcount agent's hypotheses in a log, and who a candidate notifies
PlaycountHyps(log) == {i \in 1..Len(log) : log[i].knowledge_source = "playcount"}
Subscriptions(rec, ks) == {i \in 1..Len(rec.dependents) : rec.dependents[i] = ks}
Last(q) == q[Len(q)]

\* C13: when a rejected candidate notifies the playcount agent, the agent's
\* hypothesis is resigned and the direction comes from the rejected
\* candidate's play count: below the reference's it pops the 'more' queue,
\* otherwise the 'fewer' queue, also when the agent's current hypothesis is
\* for another candidate.
C13_DirectionFromRejected ==
    [][(lastOp' = "dislike" /\ pc = "ask"
          /\ Cardinality(Subscriptions(pool[best], "playcount")) = 1) =>
         /\ PlaycountHyps(affirmations') = {}
         /\ IF Plays(pool[best].id) < Plays(SolvingTrack(Current))
            THEN /\ strategies.more # << >> =>
                       /\ try_this' = Last(strategies.more)
                       /\ strategies' = [strategies EXCEPT !.more = Pop(@)]
            ELSE /\ strategies.fewer # << >> =>
                       /\ try_this' = Last(strategies.fewer)
                       /\ strategies' = [strategies EXCEPT !.fewer = Pop(@)]]_vars

\* C14: from freshly initialised queues, rejections in one direction take that
\* direction's strategies in escalating order: the first takes the milder one
\* ('more plays' / 'fewer plays'), the second the stronger one.
C14_EscalatingOrder ==
    [][(lastOp' = "dislike" /\ pc = "ask") =>
         /\ (Len(strategies.more) = 2 /\ Len(strategies'.more) = 1)
               => try_this' = "more plays"
         /\ (Len(strategies.more) = 1 /\ Len(strategies'.more) = 0)
               => try_this' = "a lot more plays"
         /\ (Len(strategies.fewer) = 2 /\ Len(strategies'.fewer) = 1)
               => try_this' = "fewer plays"
         /\ (Len(strategies.fewer) = 1 /\ Len(strategies'.fewer) = 0)
               => try_this' = "a lot fewer plays"]_vars

\* no candidate of the pool shares a tag with the reference track
NoSharedTag ==
    \A i \in 1..Len(pool) :
       tag_match_count(tag_song(SolvingTrack(Current)), tag_song(pool[i].id)) = 0
TagHyps(log) == {i \in 1..Len(log) : log[i].knowledge_source = "tags"}

\* C15: when no candidate of the pool shares a tag with the reference track
\* (the reference may have no tags at all), the tag agent's choose() raises
\* nothing, has no winner, records no hypothesis and subscribes to nothing.
C15_TagNoWinnerIsNoResult ==
    [][(lastOp' = "recommend" /\ pc = "recommend" /\ pool # << >> /\ NoSharedTag) =>
         /\ err' = "none"
         /\ tagmatch_suggestion'.reco = 0
         /\ \A i \in TagHyps(affirmations') :
               \E j \in TagHyps(affirmations) : affirmations'[i] = affirmations[j]
         /\ \A i \in 1..Len(pool) :
               Subscriptions(pool'[i], "tags") = Subscriptions(pool[i], "tags")]_vars

\* the buckets of the playcount agent by their definition: for each strategy
\* the pool position of its candidate, 0 when it has none
DeltaOf(p, i, ref) == Plays(p[i].id) - Plays(ref)
\* |delta| / reference play count x 100, and 100 less that, as floats; over
\* the tracks computed once
PctDiffs ==
    [x \in AllTracks \X AllTracks |->
        FloatMul(FloatQuotient(Abs(Plays(x[1]) - Plays(x[2])), Plays(x[2])),
                 FloatOf(100))] @@ << >>
PctDiff(p, i, ref) == PctDiffs[<<p[i].id, ref>>]
Nearnesses == [x \in DOMAIN PctDiffs |-> FloatSub(FloatOf(100), PctDiffs[x])] @@ << >>
Nearness(p, i, ref) == Nearnesses[<<p[i].id, ref>>]
\* the first position of S whose delta is the least (sign 1) or the greatest
\* (sign -1) of S
Extreme(p, ref, S, sign) ==
    FirstOf({i \in S : \A j \in S : sign * DeltaOf(p, i, ref) <= sign * DeltaOf(p, j, ref)})
ClosestOf(p, ref) ==
    FirstOf({i \in 1..Len(p) :
        \A j \in 1..Len(p) : Abs(DeltaOf(p, i, ref)) <= Abs(DeltaOf(p, j, ref))})
Bucket(p, ref, s) ==
    LET all == 1..Len(p)
        c == DeltaOf(p, ClosestOf(p, ref), ref)
    IN CASE s = "closest playcount" -> ClosestOf(p, ref)
         [] s = "a lot more plays" ->
              Extreme(p, ref, {i \in all : DeltaOf(p, i, ref) > 0}, -1)
         [] s = "a lot fewer plays" ->
              Extreme(p, ref, {i \in all : DeltaOf(p, i, ref) < 0}, 1)
         [] s = "more plays" ->
              Extreme(p, ref, {i \in all : DeltaOf(p, i, ref) > 0 /\ DeltaOf(p, i, ref) > c}, 1)
         [] s = "fewer plays" ->
              Extreme(p, ref, {i \in all : DeltaOf(p, i, ref) < 0 /\ DeltaOf(p, i, ref) < c}, -1)
StrategyNames ==
    {"closest playcount", "a lot more plays", "a lot fewer plays", "more plays", "fewer plays"}

\* C16: for the pool and the reference track of every recommend(), the five
\* running bests of the one pass are the buckets of the definition; the
\* closest bucket scores 100 - pct_diff and 'a lot more' scores pct_diff; the
\* candidate returned is the bucket of the strategy in use, with that score
\* when no quality modifier applies.
C16_BucketsMatchDefinition ==
    (lastOp = "recommend" /\ pool # << >>) =>
       LET ref == SolvingTrack(Current)
           pos == positions(pool, ref)
           got == playcount_suggestion.reco
       IN /\ \A s \in StrategyNames : pos[s].reco = Bucket(pool, ref, s)
          /\ pos["closest playcount"].score = Nearness(pool, ClosestOf(pool, ref), ref)
          /\ Bucket(pool, ref, "a lot more plays") # 0 =>
                pos["a lot more plays"].score
                   = PctDiff(pool, Bucket(pool, ref, "a lot more plays"), ref)
          /\ got = Bucket(pool, ref, try_this)
          /\ (source_quality = None /\ try_this = "closest playcount")
                => playcount_suggestion.score = Nearness(pool, got, ref)
          /\ (source_quality = None /\ try_this = "a lot more plays")
                => playcount_suggestion.score = PctDiff(pool, got, ref)
\* the spec's example: reference 100, candidates 90, 150 and 200 (the 150 one
\* first, so that 90 displaces it): 'closest' gives 90 with score 90
C16_Witness ==
    /\ lastOp = "recommend"
    /\ Plays(SolvingTrack(Current)) = 100
    /\ Len(pool) = 3
    /\ <<Plays(pool[1].id), Plays(pool[2].id), Plays(pool[3].id)>>
          = <<150, 90, 200>>
    /\ try_this = "closest playcount"
    /\ Plays(pool[playcount_suggestion.reco].id) = 90
    /\ playcount_suggestion.score = FloatOf(90)
    /\ positions(pool, SolvingTrack(Current))["more plays"].reco = 1
\* the same pool with 'a lot more': 200 with score 100
C16_WitnessALotMore ==
    /\ lastOp = "recommend"
    /\ Plays(SolvingTrack(Current)) = 100
    /\ try_this = "a lot more plays"
    /\ source_quality = None
    /\ playcount_suggestion.reco # 0
    /\ Plays(pool[playcount_suggestion.reco].id) = 200
    /\ playcount_suggestion.score = FloatOf(100)

\* the strategy a directional strategy is paired with
Paired(s) ==
    CASE s = "a lot more plays" -> "more plays"
      [] s = "more plays" -> "a lot more plays"
      [] s = "a lot fewer plays" -> "fewer plays"
      [] s = "fewer plays" -> "a lot fewer plays"
      [] OTHER -> "closest playcount"
\* the strategy whose bucket supplies the candidate, for strategy s
Supplier(p, ref, s) ==
    IF Bucket(p, ref, s) # 0 THEN s
    ELSE IF Bucket(p, ref, Paired(s)) # 0 THEN Paired(s)
    ELSE "closest playcount"

\* C17: on a non-empty pool choose() takes the bucket of the current strategy
\* ('closest' when none is set), of the paired strategy when that is empty,
\* of 'closest' when both are; the strategy afterwards is the one whose bucket
\* supplied the candidate, and the result is never null.
C17_FallbackChain ==
    [][(lastOp' = "recommend" /\ pc = "recommend" /\ pool # << >>) =>
         LET ref == SolvingTrack(Current)
             s == Supplier(pool, ref,
                           IF try_this = None THEN "closest playcount" ELSE try_this)
         IN /\ try_this' = s
            /\ ~playcount_suggestion'.none
            /\ playcount_suggestion'.reco # 0
            /\ playcount_suggestion'.reco = Bucket(pool, ref, s)]_vars
\* 'more plays' was the strategy (both strategies of the 'more' queue are
\* consumed), its bucket is empty and 'a lot more plays' supplied the candidate
C17_Witness ==
    /\ lastOp = "recommend"
    /\ strategies.more = << >>
    /\ try_this = "a lot more plays"
    /\ Bucket(pool, SolvingTrack(Current), "more plays") = 0
    /\ playcount_suggestion.reco = Bucket(pool, SolvingTrack(Current), "a lot more plays")
    /\ playcount_suggestion.reco # 0
\* 'a lot fewer plays' was the strategy and no bucket of its direction has a
\* candidate: 'closest playcount' supplied it
C17_WitnessClosest ==
    /\ lastOp = "recommend"
    /\ strategies.fewer = <<"fewer plays">>
    /\ try_this = "closest playcount"
    /\ playcount_suggestion.reco # 0

\* C18: a rejection that reaches the playcount agent when the queue of the
\* direction it chooses is empty makes the quality POOR, resets both queues
\* to their two strategies and leaves the strategy unset, so that the next
\* choose() on a non-empty pool selects with 'closest playcount'; the quality
\* becomes POOR in no other way.  The direction is the one the agent takes
\* when the rejection reaches it: 'more' when it has no hypothesis or its
\* hypothesis is for a candidate whose play count is below the reference's
\* as line 423 compares them, 'fewer' otherwise.
C18_PoorOnExhaustedQueue ==
    [][LET reached == /\ lastOp' = "dislike"
                      /\ pc = "ask"
                      /\ Subscriptions(pool[best], "playcount") # {}
           up == \/ PlaycountHyps(affirmations) = {}
                 \/ py_less(PlaycountOf(affirmations[FirstOf(PlaycountHyps(affirmations))]
                                            .recommendation),
                            PlaycountOf(SolvingTrack(Current)))
           exhausted == IF up THEN strategies.more = << >> ELSE strategies.fewer = << >>
       IN /\ (reached /\ exhausted) =>
                /\ source_quality' = "POOR"
                /\ strategies' = init_strategies
                /\ try_this' = None
          /\ (source_quality' = "POOR" /\ source_quality # "POOR") => (reached /\ exhausted)
          /\ (lastOp' = "recommend" /\ source_quality = "POOR" /\ try_this = None
               /\ pool # << >>) =>
                /\ try_this' = "closest playcount"
                /\ playcount_suggestion'.reco
                      = Bucket(pool, SolvingTrack(Current), "closest playcount")
                /\ source_quality' = "POOR"]_vars

\* the number of tags a track shares with the reference track
SharedTags(t, ref) ==
    Cardinality({TopTagsOf(t)[k] : k \in 1..Len(TopTagsOf(t))}
                \cap {TopTagsOf(ref)[k] : k \in 1..Len(TopTagsOf(ref))})

\* C19: the candidate the tag agent's choose() returns shares more tags with
\* the reference track than every candidate before it in the pool and at
\* least as many as every candidate after it, and the score is shared tags /
\* reference tags x 100.
C19_TagWinner ==
    (lastOp = "recommend" /\ ~tagmatch_suggestion.none) =>
       LET ref == SolvingTrack(Current)
           w == tagmatch_suggestion.reco
       IN /\ w \in 1..Len(pool)
          /\ \A j \in 1..Len(pool) :
                /\ SharedTags(pool[j].id, ref) <= SharedTags(pool[w].id, ref)
                /\ j < w => SharedTags(pool[j].id, ref) < SharedTags(pool[w].id, ref)
          /\ tagmatch_suggestion.score
                = FloatMul(FloatQuotient(SharedTags(pool[w].id, ref), Len(TopTagsOf(ref))),
                           FloatOf(100))
\* the spec's example, reference tags a, b, c and candidates with a, b and
\* with a: score 66.67; a later candidate shares as many tags as the winner
C19_Witness ==
    /\ lastOp = "recommend"
    /\ ~tagmatch_suggestion.none
    /\ TopTagsOf(SolvingTrack(Current)) = <<"a", "b", "c">>
    /\ TopTagsOf(pool[tagmatch_suggestion.reco].id) = <<"a", "b">>
    /\ tagmatch_suggestion.score = FloatMul(FloatQuotient(2, 3), FloatOf(100))
    /\ \E j \in 1..Len(pool) :
          /\ j > tagmatch_suggestion.reco
          /\ SharedTags(pool[j].id, SolvingTrack(Current)) = 2
    /\ \E j \in 1..Len(pool) : TopTagsOf(pool[j].id) = <<"a">>

\* C20: when the user rejects every recommendation (the feed is finite), the
\* cycle ends with recommend() finding the pool empty and yielding no result.
C20_RejectingEndsWithEmptyPool ==
    (pc = "recommend")
        ~> (pc = "done" /\ lastOp = "recommend" /\ pool = << >> /\ best = 0)
\* what the cycle does reach: it ends, with no result or with an error raised
\* by recommend(); when it ends with no result the pool is empty
C20_RejectingEnds == (pc = "recommend") ~> (pc \in {"done", "crashed"})
C20_DoneMeansEmptyPool == pc = "done" => (pool = << >> /\ best = 0 /\ err = "none")
\* every step the loop of a rejecting session takes moves pc on, so that
\* fairness of the loop's steps is fairness of the handlers
MovesPc == (pc \in {"recommend", "ask"}) => (LoopStep /\ pc' # pc)
LoopStepsMovePc == [][MovesPc]_vars

\* C21: in every reachable state no agent appears more than once in the
\* subscriber list of a candidate of the pool.
C21_NoDuplicateSubscribers ==
    \A i \in 1..Len(pool) :
        \A j, k \in 1..Len(pool[i].dependents) :
            pool[i].dependents[j] = pool[i].dependents[k] => j = k

\* C22: a choose() that directly follows a choose() of the same agent, with
\* no feedback and no pool change in between, returns the same candidate and
\* the same score, and leaves the hypothesis log, every subscriber list and the
\* playcount agent's strategy state as they were.
C22_SecondCall ==
    /\ (lastOp = "playcount.choose" /\ lastOp' = "playcount.choose") =>
          /\ pc' = "recommend"
          /\ playcount_suggestion' = playcount_suggestion
          /\ UNCHANGED <<affirmations, pool, try_this, source_quality, strategies>>
    /\ (lastOp = "tags.choose" /\ lastOp' = "tags.choose") =>
          /\ pc' = "recommend"
          /\ tagmatch_suggestion' = tagmatch_suggestion
          /\ UNCHANGED <<affirmations, pool, try_this, source_quality, strategies>>
C22_ChooseIdempotent == [][C22_SecondCall]_vars
\* a second call of the playcount agent's choose() with the quality multiplier
\* in force, and the tag agent's suggestion of an earlier call still standing
C22_Witness ==
    /\ lastOp = "playcount.choose"
    /\ lastArg = 2
    /\ source_quality = "POOR"
    /\ ~playcount_suggestion.none
    /\ ~tagmatch_suggestion.none
    /\ pool # << >>
\* the same with the quality GOOD, which takes an accepted recommendation
\* (a state of SpecChooseLikes, where the formula holds as well)
C22_WitnessGood ==
    /\ lastOp = "playcount.choose"
    /\ lastArg = 2
    /\ source_quality = "GOOD"
    /\ ~playcount_suggestion.none
\* a second call of the tag agent's choose()
C22_WitnessTags ==
    /\ lastOp = "tags.choose"
    /\ lastArg = 2
    /\ ~tagmatch_suggestion.none
    /\ \E i \in 1..Len(affirmations) : affirmations[i].knowledge_source = "playcount"
====
